---------------------------- MODULE Spec2Model ----------------------------
(***************************************************************************)
(* PyTetris: the board (board.py), the tetromino catalog (tetromino.py),  *)
(* the collision detector (collision.py), the score manager               *)
(* (score_manager.py) and the game state machine (game_state.py).         *)
(*                                                                         *)
(* Python lists are modelled as TLA+ sequences: the 0-based index i of    *)
(* the source is position i+1 of the sequence.  Python's None is the      *)
(* string "None" for cells and results and the record NoPiece for the     *)
(* optional pieces.                                                        *)
(***************************************************************************)
EXTENDS Integers, Sequences, FiniteSets, TLC

VARIABLES
    state,          \* GameState.state
    board,          \* GameState.board: [width, height, grid]
    score,          \* ScoreManager.score
    lines_cleared,  \* ScoreManager.lines_cleared
    high_score,     \* ScoreManager.high_score
    current_piece,  \* GameState.current_piece
    next_piece,     \* GameState.next_piece
    op,             \* name of the last call
    args,           \* arguments of the last call
    ret,            \* its result, or the exception it raised
    pstate,         \* GameState.state when the last call began
    num_lines,      \* rows found complete by the last lock_current_piece
    disk            \* what the file ScoreManager.save_file holds

vars == <<state, board, score, lines_cleared, high_score, current_piece,
          next_piece, op, args, ret, pstate, num_lines, disk>>

gameVars == <<state, board, score, lines_cleared, high_score, current_piece,
              next_piece>>

-----------------------------------------------------------------------------
(* Bounds of the model *)

\* number of piece types random.choice draws from (a prefix of piece_types)
NumTypes == 1
\* dimensions of the boards of the Board specification
BWidth == 2
BHeight == 3
\* longest list of rows handed to clear_lines in the Board specification
MaxLines == 2
\* cap on lines_cleared: the game loop scores no line at or above it
MaxScoredLines == 2
\* number of bottom rows the set_cell loops fill
FillRows == 5
\* cap on lines_cleared: no piece is locked at or above it
MaxLinesCleared == 10
\* most single line clears scored before the first lock
MaxStartLines == 9
\* dimensions of the board of the cell specification
CWidth == 2
CHeight == 2
\* dimensions of the board of the collision specification
KWidth == 4
KHeight == 4
\* highest level set_level is called with in the score specification
MaxLevel == 12
\* cap on score per level: no line clear is scored at or above it
MaxScore == 1000
\* soft drops keep the score within this distance of a multiple of 100
MaxDrop == 2
\* the save file of an earlier session holds 0, 50, ... 50 * MaxStored
MaxStored == 2
\* a piece on its own is moved at most this far from where it was made
MaxShift == 2
\* in guarded play no lock is made that would leave more blocks than this
MaxLocked == 4

-----------------------------------------------------------------------------
(* Generic helpers for Python lists *)

\* list.insert into a descending list (one step of the sort below)
RECURSIVE InsertDesc(_, _)
InsertDesc(x, s) ==
    IF s = <<>> THEN <<x>>
    ELSE IF x >= Head(s) THEN <<x>> \o s
    ELSE <<Head(s)>> \o InsertDesc(x, Tail(s))

\* sorted(lines): the ascending order
RECURSIVE InsertAsc(_, _)
InsertAsc(x, s) ==
    IF s = <<>> THEN <<x>>
    ELSE IF x <= Head(s) THEN <<x>> \o s
    ELSE <<Head(s)>> \o InsertAsc(x, Tail(s))

RECURSIVE SortedAsc(_)
SortedAsc(s) == IF s = <<>> THEN <<>> ELSE InsertAsc(Head(s), SortedAsc(Tail(s)))

\* sorted(lines, reverse=True)
RECURSIVE SortedDesc(_)
SortedDesc(s) == IF s = <<>> THEN <<>> ELSE InsertDesc(Head(s), SortedDesc(Tail(s)))

\* del lst[i] for an index 0 <= i < len(lst)
DelAt(lst, i) == SubSeq(lst, 1, i) \o SubSeq(lst, i + 2, Len(lst))

Range(s) == {s[i] : i \in 1..Len(s)}

\* no element occurs twice in the list
IsDistinct(q) == \A i, j \in 1..Len(q) : i # j => q[i] # q[j]

-----------------------------------------------------------------------------
(* board.py *)

\* [None for _ in range(width)]
EmptyRow(width) == [c \in 1..width |-> "None"]

\* Board.__init__
NewBoard(width, height) ==
    [width |-> width, height |-> height,
     grid |-> [r \in 1..height |-> EmptyRow(width)]]

InBounds(b, row, col) ==
    0 <= row /\ row < b.height /\ 0 <= col /\ col < b.width

\* only the upper limits are checked: a negative index counts from the end
set_cell_nolower(b, row, col, value) ==
    LET r == IF row < 0 THEN row + b.height ELSE row
        c == IF col < 0 THEN col + b.width ELSE col
    IN IF row < b.height /\ col < b.width /\ r >= 0 /\ c >= 0
       THEN [b EXCEPT !.grid[r + 1][c + 1] = value]
       ELSE b

\* Board.set_cell
set_cell(b, row, col, value) ==
    IF InBounds(b, row, col)
    THEN [b EXCEPT !.grid[row + 1][col + 1] = value]
    ELSE b

\* Board.get_cell
get_cell(b, row, col) ==
    IF InBounds(b, row, col) THEN b.grid[row + 1][col + 1] ELSE "None"

\* Board.clear_cell
clear_cell(b, row, col) ==
    IF InBounds(b, row, col)
    THEN [b EXCEPT !.grid[row + 1][col + 1] = "None"]
    ELSE b

\* Board.is_empty
is_empty(b, row, col) == get_cell(b, row, col) = "None"

\* the cell is looked at without the checks of the boundaries
is_valid_position_nobounds(b, row, col) == is_empty(b, row, col)

\* Board.is_valid_position
is_valid_position(b, row, col) ==
    IF row < 0 \/ row >= b.height THEN FALSE
    ELSE IF col < 0 \/ col >= b.width THEN FALSE
    ELSE is_empty(b, row, col)

\* all(self.grid[row][col] is not None for col in range(self.width))
RowComplete(b, row) ==
    \A col \in 0..(b.width - 1) : b.grid[row + 1][col + 1] # "None"

\* Board.get_complete_lines: the loop over range(height), from row `row` on
RECURSIVE CompleteFrom(_, _)
CompleteFrom(b, row) ==
    IF row >= b.height THEN <<>>
    ELSE (IF RowComplete(b, row) THEN <<row>> ELSE <<>>) \o CompleteFrom(b, row + 1)

\* the rows are collected from the bottom up
get_complete_lines_desc(b) == SortedDesc(CompleteFrom(b, 0))

get_complete_lines(b) == CompleteFrom(b, 0)

\* the list in the order given, and in ascending order
ClearOrderUnsorted(lines) == lines
ClearOrderAscending(lines) == SortedAsc(lines)

\* sorted_lines = sorted(lines, reverse=True)
ClearOrder(lines) == SortedDesc(lines)

\* the loop `for line in sorted_lines: del self.grid[line]`; a negative index
\* counts from the end of the list and an index outside the list raises.
RECURSIVE DelLoop(_, _)
DelLoop(grid, sorted_lines) ==
    IF sorted_lines = <<>> THEN [grid |-> grid, exc |-> "None"]
    ELSE LET line == Head(sorted_lines)
             idx == IF line < 0 THEN line + Len(grid) ELSE line
         IN IF idx < 0 \/ idx >= Len(grid)
            THEN [grid |-> grid, exc |-> "IndexError"]
            ELSE DelLoop(DelAt(grid, idx), Tail(sorted_lines))

\* one empty row is put on top, however many rows were removed
InsertOneEmpty(grid, n, width) ==
    IF n <= 0 THEN grid ELSE <<[c \in 1..width |-> "None"]>> \o grid

\* the loop `for _ in range(num_lines_cleared): self.grid.insert(0, [...])`
RECURSIVE InsertEmpty(_, _, _)
InsertEmpty(grid, n, width) ==
    IF n <= 0 THEN grid ELSE InsertEmpty(<<EmptyRow(width)>> \o grid, n - 1, width)

\* the rows are left where they are
clear_lines_keep(b, lines) == [board |-> b, exc |-> "None"]

\* Board.clear_lines: the board it leaves and the exception it raises, if any
clear_lines(b, lines) ==
    IF lines = <<>> THEN [board |-> b, exc |-> "None"]
    ELSE LET d == DelLoop(b.grid, ClearOrder(lines))
         IN IF d.exc # "None"
            THEN [board |-> [b EXCEPT !.grid = d.grid], exc |-> d.exc]
            ELSE [board |-> [b EXCEPT !.grid = InsertEmpty(d.grid, Len(lines), b.width)],
                  exc |-> "None"]

\* the second row is checked instead of the top row
is_game_over_row1(b) == \E col \in 0..(b.width - 1) : ~is_empty(b, 1, col)

\* Board.is_game_over
is_game_over(b) == \E col \in 0..(b.width - 1) : ~is_empty(b, 0, col)

\* Board.reset
board_reset(b) == [b EXCEPT !.grid = [r \in 1..b.height |-> EmptyRow(b.width)]]

-----------------------------------------------------------------------------
(* tetromino.py *)

\* TetrominoFactory.piece_types, in the order of the source
piece_types == <<"I", "O", "T", "S", "Z", "J", "L">>

PIECE_SHAPES ==
    [I |-> << <<<<0, 0>>, <<0, 1>>, <<0, 2>>, <<0, 3>>>>,
              <<<<0, 1>>, <<1, 1>>, <<2, 1>>, <<3, 1>>>>,
              <<<<1, 0>>, <<1, 1>>, <<1, 2>>, <<1, 3>>>>,
              <<<<0, 2>>, <<1, 2>>, <<2, 2>>, <<3, 2>>>> >>,
     O |-> << <<<<0, 0>>, <<0, 1>>, <<1, 0>>, <<1, 1>>>>,
              <<<<0, 0>>, <<0, 1>>, <<1, 0>>, <<1, 1>>>>,
              <<<<0, 0>>, <<0, 1>>, <<1, 0>>, <<1, 1>>>>,
              <<<<0, 0>>, <<0, 1>>, <<1, 0>>, <<1, 1>>>> >>,
     T |-> << <<<<0, 1>>, <<1, 0>>, <<1, 1>>, <<1, 2>>>>,
              <<<<0, 1>>, <<1, 1>>, <<1, 2>>, <<2, 1>>>>,
              <<<<1, 0>>, <<1, 1>>, <<1, 2>>, <<2, 1>>>>,
              <<<<0, 1>>, <<1, 0>>, <<1, 1>>, <<2, 1>>>> >>,
     S |-> << <<<<0, 1>>, <<0, 2>>, <<1, 0>>, <<1, 1>>>>,
              <<<<0, 0>>, <<1, 0>>, <<1, 1>>, <<2, 1>>>>,
              <<<<1, 1>>, <<1, 2>>, <<2, 0>>, <<2, 1>>>>,
              <<<<0, 1>>, <<1, 1>>, <<1, 2>>, <<2, 2>>>> >>,
     Z |-> << <<<<0, 0>>, <<0, 1>>, <<1, 1>>, <<1, 2>>>>,
              <<<<0, 2>>, <<1, 1>>, <<1, 2>>, <<2, 1>>>>,
              <<<<1, 0>>, <<1, 1>>, <<2, 1>>, <<2, 2>>>>,
              <<<<0, 1>>, <<1, 0>>, <<1, 1>>, <<2, 0>>>> >>,
     J |-> << <<<<0, 0>>, <<1, 0>>, <<1, 1>>, <<1, 2>>>>,
              <<<<0, 1>>, <<0, 2>>, <<1, 1>>, <<2, 1>>>>,
              <<<<1, 0>>, <<1, 1>>, <<1, 2>>, <<2, 2>>>>,
              <<<<0, 1>>, <<1, 1>>, <<2, 0>>, <<2, 1>>>> >>,
     L |-> << <<<<0, 2>>, <<1, 0>>, <<1, 1>>, <<1, 2>>>>,
              <<<<0, 1>>, <<1, 1>>, <<2, 1>>, <<2, 2>>>>,
              <<<<1, 0>>, <<1, 1>>, <<1, 2>>, <<2, 0>>>>,
              <<<<0, 0>>, <<0, 1>>, <<1, 1>>, <<2, 1>>>> >>]

\* the colors with J given the color of I
PIECE_COLORS_dup ==
    [I |-> "cyan", O |-> "yellow", T |-> "purple", S |-> "green",
     Z |-> "red", J |-> "cyan", L |-> "orange"]

PIECE_COLORS ==
    [I |-> "cyan", O |-> "yellow", T |-> "purple", S |-> "green",
     Z |-> "red", J |-> "blue", L |-> "orange"]

\* the value None of an Optional[Tetromino]
NoPiece ==
    [id |-> 0, type |-> "None", color |-> "None", row |-> 0, col |-> 0,
     rotation_state |-> 0, shape |-> <<>>]

\* Tetromino.__init__ with the default spawn_col; id is the identity of the
\* new object
Tetromino(id, piece_type) ==
    [id |-> id, type |-> piece_type, color |-> PIECE_COLORS[piece_type],
     row |-> 0, col |-> 3, rotation_state |-> 0,
     shape |-> PIECE_SHAPES[piece_type][1]]

\* a piece of type I made for every tag that is not in the catalog
Tetromino_init_default(id, piece_type) ==
    IF piece_type \notin DOMAIN PIECE_SHAPES
    THEN [piece |-> Tetromino(id, "I"), exc |-> "None"]
    ELSE [piece |-> Tetromino(id, piece_type), exc |-> "None"]

\* Tetromino.__init__ called with any tag: the piece made, if any, and the
\* exception raised
Tetromino_init(id, piece_type) ==
    IF piece_type \notin DOMAIN PIECE_SHAPES
    THEN [piece |-> NoPiece, exc |-> "ValueError"]
    ELSE [piece |-> Tetromino(id, piece_type), exc |-> "None"]

\* Tetromino.move_left
move_left(p) == [p EXCEPT !.col = p.col - 1]

\* Tetromino.move_right
move_right(p) == [p EXCEPT !.col = p.col + 1]

\* Tetromino.move_down
move_down(p) == [p EXCEPT !.row = p.row + 1]

\* the rotation index advanced and the shape left as it was
rotate_clockwise_noshape(p) ==
    [p EXCEPT !.rotation_state = (p.rotation_state + 1) % 4]

\* Tetromino.rotate_clockwise
rotate_clockwise(p) ==
    LET rs == (p.rotation_state + 1) % 4
    IN [p EXCEPT !.rotation_state = rs, !.shape = PIECE_SHAPES[p.type][rs + 1]]

\* Tetromino.rotate_counterclockwise; Python's % gives 3 for -1 % 4
rotate_counterclockwise(p) ==
    LET rs == (p.rotation_state - 1) % 4
    IN [p EXCEPT !.rotation_state = rs, !.shape = PIECE_SHAPES[p.type][rs + 1]]

\* Tetromino.get_block_positions
get_block_positions(p) ==
    [i \in 1..Len(p.shape) |-> <<p.row + p.shape[i][1], p.col + p.shape[i][2]>>]

\* the types random.choice may return in this model
ChoiceTypes == {piece_types[i] : i \in 1..NumTypes}

\* the identity of a newly allocated object: different from every object in used
FreshId(used) == CHOOSE i \in 1..(Cardinality(used) + 1) :
                    i \notin used /\ \A j \in 1..(i - 1) : j \in used

-----------------------------------------------------------------------------
(* collision.py *)

\* the blocks are checked where the piece is, not where it is asked to go
is_valid_move_own_anchor(b, piece, new_row, new_col) ==
    \A i \in 1..Len(piece.shape) :
        is_valid_position(b, piece.row + piece.shape[i][1], piece.col + piece.shape[i][2])

\* CollisionDetector.is_valid_move
is_valid_move(b, piece, new_row, new_col) ==
    \A i \in 1..Len(piece.shape) :
        is_valid_position(b, new_row + piece.shape[i][1], new_col + piece.shape[i][2])

\* CollisionDetector.can_move_left
can_move_left(b, piece) == is_valid_move(b, piece, piece.row, piece.col - 1)

\* CollisionDetector.can_move_right
can_move_right(b, piece) == is_valid_move(b, piece, piece.row, piece.col + 1)

\* CollisionDetector.can_move_down
can_move_down(b, piece) == is_valid_move(b, piece, piece.row + 1, piece.col)

\* min(...) and max(...) over the columns of a shape
MinOf(S) == CHOOSE x \in S : \A y \in S : x <= y
MaxOf(S) == CHOOSE x \in S : \A y \in S : x >= y

\* the columns piece.col + col_offset of the blocks of a shape
ShapeCols(piece, shape) == {piece.col + shape[i][2] : i \in 1..Len(shape)}

\* the rotation is accepted whenever no block collides
can_rotate_noflush(b, piece) ==
    LET next_shape == PIECE_SHAPES[piece.type][((piece.rotation_state + 1) % 4) + 1]
    IN \A i \in 1..Len(next_shape) :
          is_valid_position(b, piece.row + next_shape[i][1], piece.col + next_shape[i][2])

\* CollisionDetector.can_rotate
can_rotate(b, piece) ==
    LET current_shape == PIECE_SHAPES[piece.type][piece.rotation_state + 1]
        next_rotation_state == (piece.rotation_state + 1) % 4
        next_shape == PIECE_SHAPES[piece.type][next_rotation_state + 1]
        min_col == MinOf(ShapeCols(piece, next_shape))
        max_col == MaxOf(ShapeCols(piece, next_shape))
        current_min_col == MinOf(ShapeCols(piece, current_shape))
        current_max_col == MaxOf(ShapeCols(piece, current_shape))
    IN IF \E i \in 1..Len(next_shape) :
             ~is_valid_position(b, piece.row + next_shape[i][1],
                                piece.col + next_shape[i][2])
       THEN FALSE
       ELSE IF \/ (min_col = 0 /\ current_min_col > 0)
               \/ (max_col = b.width - 1 /\ current_max_col < b.width - 1)
       THEN FALSE
       ELSE TRUE

\* the kicks to the right are tried before the kicks to the left
kick_offsets_right_first == << <<0, 1>>, <<0, 0 - 1>>, <<0, 2>>, <<0, 0 - 2>>, <<0 - 1, 0>> >>

\* kick_offsets of get_wall_kick_offset
kick_offsets == << <<0, 0 - 1>>, <<0, 1>>, <<0, 0 - 2>>, <<0, 2>>, <<0 - 1, 0>> >>

\* the loop over kick_offsets, from the k-th offset on; the result None is
\* the empty tuple
RECURSIVE KickFrom(_, _, _)
KickFrom(b, piece, k) ==
    IF k > Len(kick_offsets) THEN <<>>
    ELSE LET next_shape == PIECE_SHAPES[piece.type][((piece.rotation_state + 1) % 4) + 1]
             test_row == piece.row + kick_offsets[k][1]
             test_col == piece.col + kick_offsets[k][2]
             valid == \A i \in 1..Len(next_shape) :
                         is_valid_position(b, test_row + next_shape[i][1],
                                           test_col + next_shape[i][2])
         IN IF valid THEN kick_offsets[k] ELSE KickFrom(b, piece, k + 1)

\* the first offset of the list returned without looking at the board
get_wall_kick_offset_unchecked(b, piece) == kick_offsets[1]

\* CollisionDetector.get_wall_kick_offset
get_wall_kick_offset(b, piece) == KickFrom(b, piece, 1)

\* the piece locks only on the floor
should_lock_floor(b, piece) ==
    \E i \in 1..Len(piece.shape) : piece.row + piece.shape[i][1] + 1 >= b.height

\* CollisionDetector.should_lock
should_lock(b, piece) == ~can_move_down(b, piece)

-----------------------------------------------------------------------------
(* score_manager.py *)

\* the save file does not exist
NoFile == [kind |-> "missing", high_score |-> 0]

\* the level counted from 0
get_level_zero(lines) == lines \div 10

\* ScoreManager.get_level
get_level(lines) == 1 + (lines \div 10)

points_map == [n \in 1..4 |-> CASE n = 1 -> 100 [] n = 2 -> 300 [] n = 3 -> 500 [] n = 4 -> 800]

\* the level is read after the lines were added
add_line_clear_score_late(sc, lines, n) ==
    IF n \in DOMAIN points_map
    THEN [score |-> sc + points_map[n] * get_level(lines + n), lines_cleared |-> lines + n]
    ELSE [score |-> sc, lines_cleared |-> lines]

\* ScoreManager.set_level: the new lines_cleared
set_level(level) == (level - 1) * 10

\* more than 4 lines are scored as 4 lines
add_line_clear_score_clamp(sc, lines, n) ==
    LET level == get_level(lines)
        m == IF n > 4 THEN 4 ELSE n
    IN IF m \in DOMAIN points_map
       THEN [score |-> sc + points_map[m] * level, lines_cleared |-> lines + m]
       ELSE [score |-> sc, lines_cleared |-> lines]

\* the points are added and the lines are not counted
add_line_clear_score_nocount(sc, lines, n) ==
    IF n \in DOMAIN points_map
    THEN [score |-> sc + points_map[n] * get_level(lines), lines_cleared |-> lines]
    ELSE [score |-> sc, lines_cleared |-> lines]

\* ScoreManager.add_line_clear_score: the new score and lines_cleared
add_line_clear_score(sc, lines, n) ==
    LET level == get_level(lines)
    IN IF n \in DOMAIN points_map
       THEN [score |-> sc + points_map[n] * level, lines_cleared |-> lines + n]
       ELSE [score |-> sc, lines_cleared |-> lines]

\* ScoreManager.add_soft_drop_score: the new score
add_soft_drop_score(sc, cells) == sc + cells

\* the score taken as the high score whatever it is
update_high_score_last(sc, high) == sc

\* ScoreManager.update_high_score: the new high_score
update_high_score(sc, high) == IF sc > high THEN sc ELSE high

\* what the file at save_file can be: absent, a directory or a file that
\* cannot be opened, bytes that are not UTF-8, text that is not JSON (the
\* empty file, a cut-off record), JSON that is not an object, an object with
\* no high_score key, or the record save writes
FileKinds ==
    {"missing", "unreadable", "not_utf8", "not_json", "not_object",
     "no_field", "record"}

\* the file save has written in full
SavedRecord(high) == [kind |-> "record", high_score |-> high]

\* the file after open(save_file, 'w') and a write that failed
TruncatedFile == [kind |-> "not_json", high_score |-> 0]

\* how a call of save can go: written in full, open raising OSError, or
\* the write raising OSError after open has emptied the file
SaveOutcomes(d) ==
    IF d.kind = "unreadable" THEN {"open_fails"}
    ELSE {"ok", "open_fails", "write_fails"}

\* ScoreManager.save: the file afterwards; the error is swallowed
save(high, d, outcome) ==
    CASE outcome = "ok" -> SavedRecord(high)
      [] outcome = "open_fails" -> d
      [] outcome = "write_fails" -> TruncatedFile

\* ScoreManager.load: the new high_score and the exception leaving the call
load(high, d) ==
    IF d.kind = "missing"
    THEN [high_score |-> 0, exc |-> "None"]
    ELSE CASE d.kind = "unreadable" -> [high_score |-> 0, exc |-> "None"]
           [] d.kind = "not_json" -> [high_score |-> 0, exc |-> "None"]
           [] d.kind = "not_utf8" ->
                  [high_score |-> high, exc |-> "UnicodeDecodeError"]
           [] d.kind = "not_object" ->
                  [high_score |-> high, exc |-> "AttributeError"]
           [] d.kind = "no_field" -> [high_score |-> 0, exc |-> "None"]
           [] d.kind = "record" ->
                  [high_score |-> d.high_score, exc |-> "None"]

-----------------------------------------------------------------------------
(* game_state.py *)

\* no new next piece is generated: the preview keeps the spawned instance
spawn_next_piece_keep(cur, nxt, used, t) ==
    LET c == IF nxt # NoPiece THEN [nxt EXCEPT !.row = 0, !.col = 3] ELSE nxt
    IN [current_piece |-> c, next_piece |-> c]

\* the current piece made anew with the type of the next piece
spawn_next_piece_copy(cur, nxt, used, t) ==
    LET c == IF nxt # NoPiece
             THEN Tetromino(FreshId(used \cup {cur.id, nxt.id}), nxt.type)
             ELSE nxt
    IN [current_piece |-> c,
        next_piece |-> Tetromino(FreshId(used \cup {cur.id, nxt.id, c.id}), t)]

\* GameState.spawn_next_piece: the new current and next piece
spawn_next_piece(cur, nxt, used, t) ==
    LET c == IF nxt # NoPiece THEN [nxt EXCEPT !.row = 0, !.col = 3] ELSE nxt
    IN [current_piece |-> c,
        next_piece |-> Tetromino(FreshId(used \cup {cur.id, nxt.id}), t)]

\* what a call records about itself
Recorded(name, a, r) ==
    /\ op' = name
    /\ args' = a
    /\ ret' = r
    /\ pstate' = state

\* a call that does not write the save file
Called(name, a, r) ==
    /\ Recorded(name, a, r)
    /\ disk' = disk

\* GameState.__init__
Init ==
    /\ state = "START"
    /\ board = NewBoard(10, 20)
    /\ score = 0
    /\ lines_cleared = 0
    /\ high_score = 0
    /\ current_piece = NoPiece
    /\ next_piece = NoPiece
    /\ op = "init"
    /\ args = <<>>
    /\ ret = "None"
    /\ pstate = "START"
    /\ num_lines = 0
    /\ disk = NoFile

\* start without the check of the state
StartAlways ==
    /\ Called("start", <<>>, "None")
    /\ \E t1 \in ChoiceTypes, t2 \in ChoiceTypes :
         LET first == Tetromino(FreshId({current_piece.id, next_piece.id}), t1)
             sp == spawn_next_piece(current_piece, first,
                                    {current_piece.id, next_piece.id}, t2)
         IN /\ state' = "PLAYING"
            /\ current_piece' = sp.current_piece
            /\ next_piece' = sp.next_piece
    /\ UNCHANGED <<board, score, lines_cleared, high_score, num_lines>>

\* GameState.start
Start ==
    /\ Called("start", <<>>, "None")
    /\ IF state = "START"
       THEN \E t1 \in ChoiceTypes, t2 \in ChoiceTypes :
              LET first == Tetromino(FreshId({current_piece.id, next_piece.id}), t1)
                  sp == spawn_next_piece(current_piece, first,
                                         {current_piece.id, next_piece.id}, t2)
              IN /\ state' = "PLAYING"
                 /\ current_piece' = sp.current_piece
                 /\ next_piece' = sp.next_piece
       ELSE UNCHANGED <<state, current_piece, next_piece>>
    /\ UNCHANGED <<board, score, lines_cleared, high_score, num_lines>>

\* pause without the check of the state
PauseAlways ==
    /\ Called("pause", <<>>, "None")
    /\ state' = "PAUSED"
    /\ UNCHANGED <<board, score, lines_cleared, high_score, current_piece,
                   next_piece, num_lines>>

\* GameState.pause
Pause ==
    /\ Called("pause", <<>>, "None")
    /\ state' = IF state = "PLAYING" THEN "PAUSED" ELSE state
    /\ UNCHANGED <<board, score, lines_cleared, high_score, current_piece,
                   next_piece, num_lines>>

\* GameState.resume
Resume ==
    /\ Called("resume", <<>>, "None")
    /\ state' = IF state = "PAUSED" THEN "PLAYING" ELSE state
    /\ UNCHANGED <<board, score, lines_cleared, high_score, current_piece,
                   next_piece, num_lines>>

\* the speed without its lower limit
get_drop_speed_nofloor(lines) == 1000 - ((get_level(lines) - 1) * 100)

\* GameState.get_drop_speed
get_drop_speed(lines) ==
    LET level == get_level(lines)
        base_speed == 1000
        speed_decrease == 100
        drop_speed == base_speed - ((level - 1) * speed_decrease)
        min_speed == 50
    IN IF drop_speed >= min_speed THEN drop_speed ELSE min_speed

\* GameState.end_game: the new state and high_score
end_game(sc, high) == [state |-> "GAME_OVER", high_score |-> update_high_score(sc, high)]

EndGame ==
    /\ Called("end_game", <<>>, "None")
    /\ state' = end_game(score, high_score).state
    /\ high_score' = end_game(score, high_score).high_score
    /\ UNCHANGED <<board, score, lines_cleared, current_piece, next_piece, num_lines>>

\* GameState.spawn_next_piece called by the game loop
SpawnNextPiece ==
    /\ Called("spawn_next_piece", <<>>, "None")
    /\ \E t \in ChoiceTypes :
         LET sp == spawn_next_piece(current_piece, next_piece, {}, t)
         IN /\ current_piece' = sp.current_piece
            /\ next_piece' = sp.next_piece
    /\ UNCHANGED <<state, board, score, lines_cleared, high_score, num_lines>>

\* GameState.try_spawn_piece
TrySpawnPiece ==
    \E t \in ChoiceTypes :
      LET sp == IF current_piece = NoPiece
                THEN spawn_next_piece(current_piece, next_piece, {}, t)
                ELSE [current_piece |-> current_piece, next_piece |-> next_piece]
          cur == sp.current_piece
      IN /\ current_piece' = cur
         /\ next_piece' = sp.next_piece
         /\ op' = "try_spawn_piece"
         /\ args' = <<>>
         /\ pstate' = state
         /\ IF cur = NoPiece
            THEN \* self.current_piece.row on None
                 /\ ret' = "AttributeError"
                 /\ UNCHANGED <<state, high_score>>
            ELSE IF ~is_valid_move(board, cur, cur.row, cur.col)
            THEN /\ state' = end_game(score, high_score).state
                 /\ high_score' = end_game(score, high_score).high_score
                 /\ ret' = "False"
            ELSE /\ ret' = "True"
                 /\ UNCHANGED <<state, high_score>>
         /\ UNCHANGED <<board, score, lines_cleared, num_lines, disk>>

\* the loop `for row, col in positions: self.board.set_cell(row, col, color)`
RECURSIVE PlaceBlocks(_, _, _)
PlaceBlocks(b, positions, color) ==
    IF positions = <<>> THEN b
    ELSE PlaceBlocks(set_cell(b, Head(positions)[1], Head(positions)[2], color),
                     Tail(positions), color)

\* only the lowest complete row is cleared and scored
lock_current_piece_one(b, piece, sc, lines) ==
    LET placed == PlaceBlocks(b, get_block_positions(piece), piece.color)
        complete_lines == get_complete_lines(placed)
        last == <<complete_lines[Len(complete_lines)]>>
        sm == add_line_clear_score(sc, lines, 1)
    IN IF complete_lines # <<>>
       THEN [board |-> clear_lines(placed, last).board,
             score |-> sm.score, lines_cleared |-> sm.lines_cleared, num_lines |-> 1]
       ELSE [board |-> placed, score |-> sc, lines_cleared |-> lines, num_lines |-> 0]

\* GameState.lock_current_piece: the board, score and lines_cleared it leaves
lock_current_piece(b, piece, sc, lines) ==
    LET placed == PlaceBlocks(b, get_block_positions(piece), piece.color)
        complete_lines == get_complete_lines(placed)
        n == Len(complete_lines)
        sm == add_line_clear_score(sc, lines, n)
    IN IF complete_lines # <<>>
       THEN [board |-> clear_lines(placed, complete_lines).board,
             score |-> sm.score, lines_cleared |-> sm.lines_cleared, num_lines |-> n]
       ELSE [board |-> placed, score |-> sc, lines_cleared |-> lines, num_lines |-> 0]

\* a lock that also ends the game when it leaves blocks in the top row
LockEndsGame ==
    /\ lines_cleared < MaxLinesCleared
    /\ Called("lock_current_piece", <<>>, "None")
    /\ IF current_piece = NoPiece
       THEN UNCHANGED <<board, score, lines_cleared, current_piece, num_lines, state>>
       ELSE LET l == lock_current_piece(board, current_piece, score, lines_cleared)
            IN /\ board' = l.board
               /\ score' = l.score
               /\ lines_cleared' = l.lines_cleared
               /\ num_lines' = l.num_lines
               /\ current_piece' = NoPiece
               /\ state' = IF is_game_over(l.board) THEN "GAME_OVER" ELSE state
    /\ UNCHANGED <<high_score, next_piece>>

LockCurrentPiece ==
    /\ lines_cleared < MaxLinesCleared
    /\ Called("lock_current_piece", <<>>, "None")
    /\ IF current_piece = NoPiece
       THEN UNCHANGED <<board, score, lines_cleared, current_piece, num_lines>>
       ELSE LET l == lock_current_piece(board, current_piece, score, lines_cleared)
            IN /\ board' = l.board
               /\ score' = l.score
               /\ lines_cleared' = l.lines_cleared
               /\ num_lines' = l.num_lines
               /\ current_piece' = NoPiece
    /\ UNCHANGED <<state, high_score, next_piece>>

\* GameState.check_game_over
CheckGameOver ==
    /\ Called("check_game_over", <<>>, "None")
    /\ IF is_game_over(board)
       THEN /\ state' = end_game(score, high_score).state
            /\ high_score' = end_game(score, high_score).high_score
       ELSE UNCHANGED <<state, high_score>>
    /\ UNCHANGED <<board, score, lines_cleared, current_piece, next_piece, num_lines>>

\* reset that forgets the preview piece
ResetKeepNext ==
    /\ Called("reset", <<>>, "None")
    /\ state' = "START"
    /\ board' = board_reset(board)
    /\ score' = 0
    /\ lines_cleared' = 0
    /\ current_piece' = NoPiece
    /\ UNCHANGED <<high_score, next_piece, num_lines>>

\* GameState.reset
Reset ==
    /\ Called("reset", <<>>, "None")
    /\ state' = "START"
    /\ board' = board_reset(board)
    /\ score' = 0
    /\ lines_cleared' = 0
    /\ current_piece' = NoPiece
    /\ next_piece' = NoPiece
    /\ UNCHANGED <<high_score, num_lines>>

\* game.score_manager.add_line_clear_score(1), called on the game's score manager
AddLineClearScore ==
    /\ lines_cleared < MaxScoredLines
    /\ Called("add_line_clear_score", <<1>>, "None")
    /\ score' = add_line_clear_score(score, lines_cleared, 1).score
    /\ lines_cleared' = add_line_clear_score(score, lines_cleared, 1).lines_cleared
    /\ UNCHANGED <<state, board, high_score, current_piece, next_piece, num_lines>>

Next ==
    \/ Start
    \/ Pause
    \/ Resume
    \/ EndGame
    \/ SpawnNextPiece
    \/ TrySpawnPiece
    \/ LockCurrentPiece
    \/ CheckGameOver
    \/ Reset
    \/ AddLineClearScore

Spec == Init /\ [][Next]_vars

-----------------------------------------------------------------------------
(* Locking, from the positions the tests set up: a started game whose       *)
(* bottom rows were filled with set_cell loops, whose current piece was     *)
(* rotated and put in place by assigning its anchor, and whose score comes  *)
(* from single line clears.                                                  *)

\* the loops `for row in range(first, last + 1): for col in range(n):
\* board.set_cell(row, col, value)`: every cell they reach is in bounds
FillRowsLoop(b, first, last, n, value) ==
    [b EXCEPT !.grid =
        [r \in 1..b.height |->
            [c \in 1..b.width |->
                IF first <= r - 1 /\ r - 1 <= last /\ c - 1 < n
                THEN value ELSE b.grid[r][c]]]]

\* the loop `for _ in range(n): score_manager.add_line_clear_score(1)` on a
\* new score manager: the score it leaves
RECURSIVE SinglesScore(_)
SinglesScore(n) ==
    IF n <= 0 THEN 0
    ELSE add_line_clear_score(SinglesScore(n - 1), n - 1, 1).score

\* a piece of type t turned rot times and put at (row, col)
PlacedPiece(id, t, rot, row, col) ==
    [Tetromino(id, t) EXCEPT !.rotation_state = rot,
                             !.shape = PIECE_SHAPES[t][rot + 1],
                             !.row = row, !.col = col]

InitLock ==
    /\ state = "PLAYING"
    /\ \E m \in 0..FillRows, n \in {10 - 1, 10} :
         board = FillRowsLoop(NewBoard(10, 20), 20 - m, 20 - 1, n, "red")
    /\ lines_cleared \in 0..MaxStartLines
    /\ score = SinglesScore(lines_cleared)
    /\ high_score = 0
    /\ \E t \in ChoiceTypes, rot \in 0..3 :
         current_piece = PlacedPiece(1, t, rot, 20 - 4, 10 - 2)
    /\ \E t \in ChoiceTypes : next_piece = Tetromino(2, t)
    /\ op = "init"
    /\ args = <<>>
    /\ ret = "None"
    /\ pstate = "START"
    /\ num_lines = 0
    /\ disk = NoFile

NextLock ==
    \/ LockCurrentPiece
    \/ SpawnNextPiece

SpecLock == InitLock /\ [][NextLock]_vars

-----------------------------------------------------------------------------
(* Stacking, from a new game: the current piece is turned and put in place   *)
(* by assigning its anchor, as the tests do, at one of a few places in the   *)
(* bottom rows, locked, and the next piece spawned; the board is changed     *)
(* by lock_current_piece and reset only.                                     *)

\* where a piece of type t is put: an I piece lying in row 18 or 19 over
\* columns 0..3 or 4..7, or standing in column 8 or 9 over rows 16..19; a
\* piece of another type is left where it spawned until the next spawn
StackPlaces(t) ==
    IF t = "I"
    THEN {[rot |-> 0, row |-> r, col |-> c] : r \in {18, 19}, c \in {0, 4}}
           \cup {[rot |-> 1, row |-> 16, col |-> c] : c \in {7, 8}}
    ELSE {}

\* for _ in range(rot): game.current_piece.rotate_clockwise();
\* game.current_piece.row = row; game.current_piece.col = col
SetPiece ==
    /\ state = "PLAYING"
    /\ current_piece # NoPiece
    /\ current_piece = Tetromino(current_piece.id, current_piece.type)
    /\ \E place \in StackPlaces(current_piece.type) :
         /\ Called("set_piece", <<place.rot, place.row, place.col>>, "None")
         /\ current_piece' = PlacedPiece(current_piece.id, current_piece.type,
                                         place.rot, place.row, place.col)
    /\ UNCHANGED <<state, board, score, lines_cleared, high_score, next_piece,
                   num_lines>>

\* game.lock_current_piece() on the piece put in place
StackLock ==
    /\ op = "set_piece"
    /\ lines_cleared < MaxScoredLines
    /\ LockCurrentPiece

NextStack ==
    \/ Start
    \/ SetPiece
    \/ StackLock
    \/ SpawnNextPiece
    \/ Reset

SpecStack == Init /\ [][NextStack]_vars

-----------------------------------------------------------------------------
(* The board on its own: Board(BWidth, BHeight) with any cells, and         *)
(* clear_lines called with any list of at most MaxLines rows of the board.  *)

RECURSIVE SeqsUpTo(_, _)
SeqsUpTo(S, n) ==
    IF n = 0 THEN {<<>>}
    ELSE LET shorter == SeqsUpTo(S, n - 1)
         IN shorter \cup {Append(q, x) : q \in {t \in shorter : Len(t) = n - 1}, x \in S}

\* the lists of rows handed to clear_lines
RowLists == SeqsUpTo(0..(BHeight - 1), MaxLines)

InitBoard ==
    /\ \E g \in [1..BHeight -> [1..BWidth -> {"None", "red"}]] :
         board = [width |-> BWidth, height |-> BHeight, grid |-> g]
    /\ state = "START"
    /\ score = 0
    /\ lines_cleared = 0
    /\ high_score = 0
    /\ current_piece = NoPiece
    /\ next_piece = NoPiece
    /\ op = "init"
    /\ args = <<>>
    /\ ret = "None"
    /\ pstate = "START"
    /\ num_lines = 0
    /\ disk = NoFile

\* board.clear_lines(lines)
ClearLines ==
    \E lines \in RowLists :
      /\ Called("clear_lines", <<lines>>, clear_lines(board, lines).exc)
      /\ board' = clear_lines(board, lines).board
      /\ UNCHANGED <<state, score, lines_cleared, high_score, current_piece,
                     next_piece, num_lines>>

NextBoard ==
    \/ ClearLines

SpecBoard == InitBoard /\ [][NextBoard]_vars

-----------------------------------------------------------------------------
(* The cells of a board: Board(CWidth, CHeight) from its construction, under *)
(* set_cell, clear_cell, get_cell, is_valid_position with any coordinates   *)
(* from one before the first to one past the last row and column,           *)
(* get_complete_lines, clear_lines with distinct rows of the board, reset.  *)

\* the row and column arguments of the cell operations
CellRows == (0 - 1)..CHeight
CellCols == (0 - 1)..CWidth

\* the lists of distinct rows of the board handed to clear_lines
DistinctRowLists == {l \in SeqsUpTo(0..(CHeight - 1), MaxLines) : IsDistinct(l)}

InitCells ==
    /\ board = NewBoard(CWidth, CHeight)
    /\ state = "START"
    /\ score = 0
    /\ lines_cleared = 0
    /\ high_score = 0
    /\ current_piece = NoPiece
    /\ next_piece = NoPiece
    /\ op = "init"
    /\ args = <<>>
    /\ ret = "None"
    /\ pstate = "START"
    /\ num_lines = 0
    /\ disk = NoFile

\* board.set_cell(row, col, 'red')
SetCell ==
    \E row \in CellRows, col \in CellCols :
      /\ Called("set_cell", <<row, col, "red">>, "None")
      /\ board' = set_cell(board, row, col, "red")
      /\ UNCHANGED <<state, score, lines_cleared, high_score, current_piece,
                     next_piece, num_lines>>

\* board.clear_cell(row, col)
ClearCell ==
    \E row \in CellRows, col \in CellCols :
      /\ Called("clear_cell", <<row, col>>, "None")
      /\ board' = clear_cell(board, row, col)
      /\ UNCHANGED <<state, score, lines_cleared, high_score, current_piece,
                     next_piece, num_lines>>

\* board.get_cell(row, col)
GetCell ==
    \E row \in CellRows, col \in CellCols :
      /\ Called("get_cell", <<row, col>>, get_cell(board, row, col))
      /\ UNCHANGED gameVars
      /\ UNCHANGED num_lines

\* board.is_valid_position(row, col)
IsValidPosition ==
    \E row \in CellRows, col \in CellCols :
      /\ Called("is_valid_position", <<row, col>>,
                IF is_valid_position(board, row, col) THEN "True" ELSE "False")
      /\ UNCHANGED gameVars
      /\ UNCHANGED num_lines

\* board.get_complete_lines()
GetCompleteLines ==
    /\ Called("get_complete_lines", <<>>, get_complete_lines(board))
    /\ UNCHANGED gameVars
    /\ UNCHANGED num_lines

\* board.clear_lines(lines) with distinct rows of the board
ClearDistinctLines ==
    \E lines \in DistinctRowLists :
      /\ Called("clear_lines", <<lines>>, clear_lines(board, lines).exc)
      /\ board' = clear_lines(board, lines).board
      /\ UNCHANGED <<state, score, lines_cleared, high_score, current_piece,
                     next_piece, num_lines>>

\* board.reset()
BoardReset ==
    /\ Called("board_reset", <<>>, "None")
    /\ board' = board_reset(board)
    /\ UNCHANGED <<state, score, lines_cleared, high_score, current_piece,
                   next_piece, num_lines>>

NextCells ==
    \/ SetCell
    \/ ClearCell
    \/ GetCell
    \/ IsValidPosition
    \/ GetCompleteLines
    \/ ClearDistinctLines
    \/ BoardReset

SpecCells == InitCells /\ [][NextCells]_vars

-----------------------------------------------------------------------------
(* The collision detector on Board(KWidth, KHeight), empty or with one cell *)
(* set, and a piece of any type and rotation put at any anchor from one     *)
(* column left of the board to its last column, as the tests place pieces.  *)

\* the anchors of the piece
PieceRows == 0..(KHeight - 1)
PieceCols == (0 - 1)..(KWidth - 1)

\* True and False as the calls return them
Bool(v) == IF v THEN "True" ELSE "False"

InitCollision ==
    /\ \/ board = NewBoard(KWidth, KHeight)
       \/ \E r \in 0..(KHeight - 1), c \in 0..(KWidth - 1) :
            board = set_cell(NewBoard(KWidth, KHeight), r, c, "red")
    /\ \E i \in 1..Len(piece_types), rot \in 0..3, row \in PieceRows, col \in PieceCols :
         current_piece = PlacedPiece(1, piece_types[i], rot, row, col)
    /\ next_piece = NoPiece
    /\ state = "START"
    /\ score = 0
    /\ lines_cleared = 0
    /\ high_score = 0
    /\ op = "init"
    /\ args = <<>>
    /\ ret = "None"
    /\ pstate = "START"
    /\ num_lines = 0
    /\ disk = NoFile

\* detector.is_valid_move(piece, new_row, new_col)
IsValidMove ==
    \E anchor \in {<<current_piece.row, current_piece.col>>,
                    <<current_piece.row - 1, current_piece.col + 1>>} :
      /\ Called("is_valid_move", anchor,
                Bool(is_valid_move(board, current_piece, anchor[1], anchor[2])))
      /\ UNCHANGED gameVars
      /\ UNCHANGED num_lines

\* detector.can_move_left(piece)
CanMoveLeft ==
    /\ Called("can_move_left", <<>>, Bool(can_move_left(board, current_piece)))
    /\ UNCHANGED gameVars
    /\ UNCHANGED num_lines

\* detector.can_move_right(piece)
CanMoveRight ==
    /\ Called("can_move_right", <<>>, Bool(can_move_right(board, current_piece)))
    /\ UNCHANGED gameVars
    /\ UNCHANGED num_lines

\* detector.can_move_down(piece)
CanMoveDown ==
    /\ Called("can_move_down", <<>>, Bool(can_move_down(board, current_piece)))
    /\ UNCHANGED gameVars
    /\ UNCHANGED num_lines

\* detector.should_lock(piece)
ShouldLock ==
    /\ Called("should_lock", <<>>, Bool(should_lock(board, current_piece)))
    /\ UNCHANGED gameVars
    /\ UNCHANGED num_lines

\* detector.can_rotate(piece)
CanRotate ==
    /\ Called("can_rotate", <<>>, Bool(can_rotate(board, current_piece)))
    /\ UNCHANGED gameVars
    /\ UNCHANGED num_lines

\* detector.get_wall_kick_offset(piece)
GetWallKickOffset ==
    /\ Called("get_wall_kick_offset", <<>>, get_wall_kick_offset(board, current_piece))
    /\ UNCHANGED gameVars
    /\ UNCHANGED num_lines

NextCollision ==
    \/ IsValidMove
    \/ CanMoveLeft
    \/ CanMoveRight
    \/ CanMoveDown
    \/ ShouldLock
    \/ CanRotate
    \/ GetWallKickOffset

SpecCollision == InitCollision /\ [][NextCollision]_vars

-----------------------------------------------------------------------------
(* The score manager on its own: a new ScoreManager put at a level with     *)
(* set_level, as the tests do, add_line_clear_score called with any number   *)
(* of lines from -1 to 5, add_soft_drop_score called with -1 to 2 cells,    *)
(* get_level and the game's get_drop_speed.                                  *)

\* the num_lines arguments of add_line_clear_score
ScoreArgs == (0 - 1)..5

InitScore ==
    /\ score = 0
    /\ \E level \in 1..MaxLevel : lines_cleared = set_level(level)
    /\ high_score = 0
    /\ state = "START"
    /\ board = NewBoard(10, 20)
    /\ current_piece = NoPiece
    /\ next_piece = NoPiece
    /\ op = "init"
    /\ args = <<>>
    /\ ret = "None"
    /\ pstate = "START"
    /\ num_lines = 0
    /\ disk = NoFile

\* score_manager.add_line_clear_score(n)
AddLineClearScoreAny ==
    \E n \in ScoreArgs :
      /\ score < MaxScore * get_level(lines_cleared)
      /\ Called("add_line_clear_score", <<n>>, "None")
      /\ score' = add_line_clear_score(score, lines_cleared, n).score
      /\ lines_cleared' = add_line_clear_score(score, lines_cleared, n).lines_cleared
      /\ UNCHANGED <<state, board, high_score, current_piece, next_piece, num_lines>>

\* the cells arguments of add_soft_drop_score
DropArgs == (0 - 1)..2

\* score_manager.add_soft_drop_score(cells)
AddSoftDropScore ==
    \E cells \in DropArgs :
      /\ \/ (score + cells) % 100 <= MaxDrop
         \/ (score + cells) % 100 >= 100 - MaxDrop
      /\ Called("add_soft_drop_score", <<cells>>, "None")
      /\ score' = add_soft_drop_score(score, cells)
      /\ UNCHANGED <<state, board, lines_cleared, high_score, current_piece,
                     next_piece, num_lines>>

\* score_manager.get_level()
GetLevel ==
    /\ Called("get_level", <<>>, get_level(lines_cleared))
    /\ UNCHANGED gameVars
    /\ UNCHANGED num_lines

\* game.get_drop_speed()
GetDropSpeed ==
    /\ Called("get_drop_speed", <<>>, get_drop_speed(lines_cleared))
    /\ UNCHANGED gameVars
    /\ UNCHANGED num_lines

NextScore ==
    \/ AddLineClearScoreAny
    \/ AddSoftDropScore
    \/ GetLevel
    \/ GetDropSpeed

SpecScore == InitScore /\ [][NextScore]_vars

-----------------------------------------------------------------------------
(* The score manager and its save file: a new ScoreManager whose save_file   *)
(* is whatever an earlier session or another program left there, games       *)
(* scored, recorded and reset, and save and load.                            *)

\* the high scores an earlier session has stored
StoredScores == {50 * k : k \in 0..MaxStored}

\* the files a ScoreManager can find at save_file
InitDisks ==
    {[kind |-> k, high_score |-> 0] : k \in FileKinds \ {"record"}}
      \cup {SavedRecord(h) : h \in StoredScores}

InitHigh ==
    /\ score = 0
    /\ lines_cleared = 0
    /\ high_score = 0
    /\ state = "START"
    /\ board = NewBoard(10, 20)
    /\ current_piece = NoPiece
    /\ next_piece = NoPiece
    /\ op = "init"
    /\ args = <<>>
    /\ ret = "None"
    /\ pstate = "START"
    /\ num_lines = 0
    /\ disk \in InitDisks

\* score_manager.update_high_score()
UpdateHighScore ==
    /\ Called("update_high_score", <<>>, "None")
    /\ high_score' = update_high_score(score, high_score)
    /\ UNCHANGED <<state, board, score, lines_cleared, current_piece,
                   next_piece, num_lines>>

\* score_manager.reset()
ScoreReset ==
    /\ Called("score_reset", <<>>, "None")
    /\ score' = 0
    /\ lines_cleared' = 0
    /\ UNCHANGED <<state, board, high_score, current_piece, next_piece,
                   num_lines>>

\* score_manager.save(), going one of the ways the file system allows
Save ==
    \E outcome \in SaveOutcomes(disk) :
      /\ Recorded("save", <<outcome>>, "None")
      /\ disk' = save(high_score, disk, outcome)
      /\ UNCHANGED gameVars
      /\ UNCHANGED num_lines

\* score_manager.load()
Load ==
    /\ Called("load", <<>>, load(high_score, disk).exc)
    /\ high_score' = load(high_score, disk).high_score
    /\ UNCHANGED <<state, board, score, lines_cleared, current_piece,
                   next_piece, num_lines>>

NextHigh ==
    \/ AddLineClearScore
    \/ AddSoftDropScore
    \/ UpdateHighScore
    \/ ScoreReset
    \/ Save
    \/ Load

SpecHigh == InitHigh /\ [][NextHigh]_vars

-----------------------------------------------------------------------------
(* A piece on its own: made with Tetromino(tag), moved, rotated either way,  *)
(* asked for its block positions, and replaced by a newly made piece.        *)

\* the tags Tetromino is called with: the seven of the catalog and two that
\* are not in it
TypeTags == Range(piece_types) \cup {"X", "i"}

InitPiece ==
    /\ \E t \in Range(piece_types) : current_piece = Tetromino(1, t)
    /\ next_piece = NoPiece
    /\ state = "START"
    /\ board = NewBoard(10, 20)
    /\ score = 0
    /\ lines_cleared = 0
    /\ high_score = 0
    /\ op = "init"
    /\ args = <<>>
    /\ ret = "None"
    /\ pstate = "START"
    /\ num_lines = 0
    /\ disk = NoFile

\* what every step on the piece alone leaves as it is
PieceFrame ==
    UNCHANGED <<state, board, score, lines_cleared, high_score, next_piece,
                num_lines>>

\* piece = Tetromino(tag); on ValueError the name keeps the piece it had
Construct ==
    \E tag \in TypeTags :
      LET made == Tetromino_init(FreshId({current_piece.id}), tag)
      IN /\ Called("Tetromino", <<tag>>, made.exc)
         /\ current_piece' = IF made.exc = "None" THEN made.piece
                                                  ELSE current_piece
         /\ PieceFrame

\* piece.move_left()
MoveLeft ==
    /\ current_piece.col > 3 - MaxShift
    /\ Called("move_left", <<>>, "None")
    /\ current_piece' = move_left(current_piece)
    /\ PieceFrame

\* piece.move_right()
MoveRight ==
    /\ current_piece.col < 3 + MaxShift
    /\ Called("move_right", <<>>, "None")
    /\ current_piece' = move_right(current_piece)
    /\ PieceFrame

\* piece.move_down()
MoveDown ==
    /\ current_piece.row < MaxShift
    /\ Called("move_down", <<>>, "None")
    /\ current_piece' = move_down(current_piece)
    /\ PieceFrame

\* piece.rotate_clockwise()
RotateClockwise ==
    /\ Called("rotate_clockwise", <<>>, "None")
    /\ current_piece' = rotate_clockwise(current_piece)
    /\ PieceFrame

\* piece.rotate_counterclockwise()
RotateCounterclockwise ==
    /\ Called("rotate_counterclockwise", <<>>, "None")
    /\ current_piece' = rotate_counterclockwise(current_piece)
    /\ PieceFrame

\* piece.get_block_positions()
GetBlockPositions ==
    /\ Called("get_block_positions", <<>>, get_block_positions(current_piece))
    /\ UNCHANGED gameVars
    /\ UNCHANGED num_lines

NextPiece ==
    \/ Construct
    \/ MoveLeft
    \/ MoveRight
    \/ MoveDown
    \/ RotateClockwise
    \/ RotateCounterclockwise
    \/ GetBlockPositions

SpecPiece == InitPiece /\ [][NextPiece]_vars

-----------------------------------------------------------------------------
(* Guarded play, from a new game: after start() the current piece is moved   *)
(* only when the matching can_move_* check answers True and rotated only     *)
(* when can_rotate does, it is locked where it is, and try_spawn_piece is    *)
(* called after each lock.                                                   *)

\* the number of blocks on board b
CountBlocks(b) ==
    Cardinality({rc \in (1..b.height) \X (1..b.width) : b.grid[rc[1]][rc[2]] # "None"})

\* if detector.can_move_left(piece): piece.move_left()
PlayLeft ==
    /\ current_piece # NoPiece
    /\ can_move_left(board, current_piece)
    /\ MoveLeft

\* if detector.can_move_right(piece): piece.move_right()
PlayRight ==
    /\ current_piece # NoPiece
    /\ can_move_right(board, current_piece)
    /\ MoveRight

\* the piece moved down without asking can_move_down
PlayDownUnchecked ==
    /\ current_piece # NoPiece
    /\ MoveDown

\* if detector.can_move_down(piece): piece.move_down()
PlayDown ==
    /\ current_piece # NoPiece
    /\ can_move_down(board, current_piece)
    /\ MoveDown

\* if detector.can_rotate(piece): piece.rotate_clockwise()
PlayRotate ==
    /\ current_piece # NoPiece
    /\ can_rotate(board, current_piece)
    /\ RotateClockwise

\* game.lock_current_piece() on the piece where it is
PlayLock ==
    /\ current_piece # NoPiece
    /\ CountBlocks(board) + 4 <= MaxLocked
    /\ LockCurrentPiece

\* game.try_spawn_piece() after a lock
PlaySpawn ==
    /\ op = "lock_current_piece"
    /\ TrySpawnPiece

NextPlay ==
    \/ Start
    \/ PlayLeft
    \/ PlayRight
    \/ PlayDown
    \/ PlayRotate
    \/ PlayLock
    \/ PlaySpawn

SpecPlay == Init /\ [][NextPlay]_vars

-----------------------------------------------------------------------------
(* What the claims are stated with *)

Max(a, b) == IF a > b THEN a ELSE b

\* new is old without the rows of R: as many empty rows as were removed come
\* first, and every other row has moved down by the number of removed rows
\* below it
IsClearedGrid(old, new, R, width) ==
    LET removed == R \cap (0..(Len(old) - 1))
        k == Cardinality(removed)
    IN /\ Len(new) = Len(old)
       /\ \A i \in 1..k : new[i] = [c \in 1..width |-> "None"]
       /\ \A r \in (0..(Len(old) - 1)) \ removed :
            new[r + 1 + Cardinality({x \in removed : x > r})] = old[r + 1]

\* the grid with the color of the piece in each cell of the piece on the board
GridWithPiece(b, piece) ==
    [r \in 1..b.height |-> [c \in 1..b.width |->
        IF \E i \in 1..4 : /\ piece.row + PIECE_SHAPES[piece.type][piece.rotation_state + 1][i][1] = r - 1
                           /\ piece.col + PIECE_SHAPES[piece.type][piece.rotation_state + 1][i][2] = c - 1
        THEN PIECE_COLORS[piece.type] ELSE b.grid[r][c]]]

\* the rows of a grid with no empty cell
FullRows(grid) ==
    {r \in 0..(Len(grid) - 1) : \A c \in 1..Len(grid[r + 1]) : grid[r + 1][c] # "None"}

TopRowOccupied == \E c \in 1..board.width : board.grid[1][c] # "None"

BoardEmpty == \A r \in 1..board.height : \A c \in 1..board.width : board.grid[r][c] = "None"

\* the 4 cells of piece p are on board b and empty
PieceFits(b, p) ==
    \A i \in 1..4 :
        LET r == p.row + PIECE_SHAPES[p.type][p.rotation_state + 1][i][1]
            c == p.col + PIECE_SHAPES[p.type][p.rotation_state + 1][i][2]
        IN /\ 0 <= r /\ r < b.height /\ 0 <= c /\ c < b.width
           /\ b.grid[r + 1][c + 1] = "None"

\* piece p with its anchor at (row, col)
MovedTo(p, row, col) == [p EXCEPT !.row = row, !.col = col]

\* piece p in its next clockwise rotation state, at the same anchor
Turned(p) == [p EXCEPT !.rotation_state = (p.rotation_state + 1) % 4]

\* the cell one row below the i-th cell of piece p
BelowRow(p, i) == p.row + PIECE_SHAPES[p.type][p.rotation_state + 1][i][1] + 1
BelowCol(p, i) == p.col + PIECE_SHAPES[p.type][p.rotation_state + 1][i][2]

\* (row, col) is a cell of board b
OnBoard(b, row, col) == 0 <= row /\ row < b.height /\ 0 <= col /\ col < b.width

\* the columns of the cells of piece p
ColsOf(p) == {p.col + PIECE_SHAPES[p.type][p.rotation_state + 1][i][2] : i \in 1..4}

\* what the moves answer, for a piece p and where it would go
MovesAnswer ==
    /\ op' = "can_move_left" =>
          (ret' = "True") <=>
              PieceFits(board, MovedTo(current_piece, current_piece.row, current_piece.col - 1))
    /\ op' = "can_move_right" =>
          (ret' = "True") <=>
              PieceFits(board, MovedTo(current_piece, current_piece.row, current_piece.col + 1))
    /\ op' = "can_move_down" =>
          (ret' = "True") <=>
              PieceFits(board, MovedTo(current_piece, current_piece.row + 1, current_piece.col))
    /\ op' \in {"can_move_left", "can_move_right", "can_move_down", "should_lock"} =>
          /\ ret' \in {"True", "False"}
          /\ UNCHANGED gameVars
    /\ op' = "should_lock" =>
          (ret' = "True") <=>
              ~PieceFits(board, MovedTo(current_piece, current_piece.row + 1, current_piece.col))

Table(k) == CASE k = 1 -> 100 [] k = 2 -> 300 [] k = 3 -> 500 [] k = 4 -> 800

-----------------------------------------------------------------------------
(* The claims *)

\* C1: pause() changes the state only from PLAYING to PAUSED and resume() only
\* from PAUSED to PLAYING; in any other state each leaves the state, board,
\* score and pieces unchanged, and neither raises.
C1_PauseResume ==
    [][ /\ op' = "pause" =>
             /\ ret' = "None"
             /\ UNCHANGED <<board, score, lines_cleared, high_score,
                            current_piece, next_piece>>
             /\ IF state = "PLAYING" THEN state' = "PAUSED" ELSE state' = state
        /\ op' = "resume" =>
             /\ ret' = "None"
             /\ UNCHANGED <<board, score, lines_cleared, high_score,
                            current_piece, next_piece>>
             /\ IF state = "PAUSED" THEN state' = "PLAYING" ELSE state' = state
      ]_vars

\* pause() was called after the game was over, with blocks on the board
C1_Witness ==
    /\ op = "pause"
    /\ pstate = "GAME_OVER"
    /\ state = "GAME_OVER"
    /\ ~BoardEmpty

\* C2: start() has an effect only in START: there it moves to PLAYING and leaves
\* a current piece at row 0, column 3, rotation 0 and a next piece that is
\* another instance; in PLAYING, PAUSED or GAME_OVER it changes nothing.
C2_Start ==
    [][ op' = "start" =>
          IF state = "START"
          THEN /\ state' = "PLAYING"
               /\ current_piece' # NoPiece
               /\ current_piece'.row = 0
               /\ current_piece'.col = 3
               /\ current_piece'.rotation_state = 0
               /\ next_piece' # NoPiece
               /\ next_piece'.id # current_piece'.id
               /\ UNCHANGED <<board, score, lines_cleared, high_score>>
          ELSE UNCHANGED gameVars
      ]_vars

\* start() was called in START and the game is playing
C2_Witness ==
    /\ op = "start"
    /\ pstate = "START"
    /\ state = "PLAYING"
    /\ current_piece # NoPiece
    /\ next_piece # NoPiece

\* C3, as claimed: the state right before the game becomes GAME_OVER is PLAYING.
C3_OnlyFromPlaying ==
    [][ (state' = "GAME_OVER" /\ state # "GAME_OVER") => state = "PLAYING" ]_vars

\* C3, amended: the game becomes GAME_OVER only by end_game(), by
\* check_game_over() with a block in the top row, or by a try_spawn_piece()
\* that fails; these do not look at the state, which may be START, PLAYING
\* or PAUSED.
C3_GameOverEntry ==
    [][ (state' = "GAME_OVER" /\ state # "GAME_OVER") =>
          /\ state \in {"START", "PLAYING", "PAUSED"}
          /\ \/ op' = "end_game"
             \/ op' = "check_game_over" /\ TopRowOccupied
             \/ op' = "try_spawn_piece" /\ ret' = "False"
      ]_vars

\* check_game_over() ended a paused game
C3_Witness ==
    /\ op = "check_game_over"
    /\ pstate = "PAUSED"
    /\ state = "GAME_OVER"

\* C4, as claimed: whenever k > 0 rows are complete after the piece is written,
\* k is added to linesCleared (and table[k] x level to the score).
C4_LockCountsEveryRow ==
    [][ (op' = "lock_current_piece" /\ current_piece # NoPiece) =>
          LET k == Cardinality(FullRows(GridWithPiece(board, current_piece)))
          IN k > 0 =>
               /\ lines_cleared' = lines_cleared + k
               /\ k <= 4 => score' = score + Table(k) * (1 + lines_cleared \div 10)
      ]_vars

\* C4, amended: lock_current_piece() with a current piece writes the piece's
\* color into each of its cells on the board, removes every complete row, and
\* for 1 <= k <= 4 complete rows adds k to linesCleared and table[k] x level
\* (the level before the lock) to the score; for k = 0 and for k > 4 the score
\* and linesCleared stay as they are; the current piece becomes empty.  With
\* no current piece it changes nothing.
C4_Lock ==
    [][ op' = "lock_current_piece" =>
          IF current_piece = NoPiece THEN UNCHANGED gameVars
          ELSE LET placed == GridWithPiece(board, current_piece)
                   k == Cardinality(FullRows(placed))
               IN /\ IsClearedGrid(placed, board'.grid, FullRows(placed), board.width)
                  /\ num_lines' = k
                  /\ IF k \in 1..4
                     THEN /\ lines_cleared' = lines_cleared + k
                          /\ score' = score + Table(k) * (1 + lines_cleared \div 10)
                     ELSE UNCHANGED <<score, lines_cleared>>
                  /\ current_piece' = NoPiece
                  /\ UNCHANGED <<state, high_score, next_piece>>
      ]_vars

\* a lock cleared 1 to 4 rows and took the game to the next level
C4_Witness ==
    /\ op = "lock_current_piece"
    /\ num_lines \in 1..4
    /\ current_piece = NoPiece
    /\ (lines_cleared \div 10) > ((lines_cleared - num_lines) \div 10)

\* C5: try_spawn_piece() makes the next piece current when there is no current
\* piece, returns success iff the 4 cells of the current piece are on the
\* board and empty, ends the game on failure and keeps the state on success.
C5_TrySpawn ==
    [][ op' = "try_spawn_piece" =>
          /\ ret' \in {"True", "False"}
          /\ current_piece' # NoPiece
          /\ IF current_piece = NoPiece
             THEN /\ current_piece'.id = next_piece.id
                  /\ current_piece'.type = next_piece.type
             ELSE current_piece' = current_piece
          /\ (ret' = "True") <=> PieceFits(board, current_piece')
          /\ board' = board
          /\ ret' = "False" => state' = "GAME_OVER"
          /\ ret' = "True" => state' = state
      ]_vars

\* C6: check_game_over() ends the game iff a cell of the top row is occupied
\* and otherwise keeps the state; right after any call that ends the game,
\* highScore is the larger of the previous highScore and the score.
C6_CheckGameOver ==
    [][ /\ op' = "check_game_over" =>
             /\ IF TopRowOccupied THEN state' = "GAME_OVER" ELSE state' = state
             /\ UNCHANGED <<board, score, lines_cleared, current_piece, next_piece>>
        /\ ( \/ op' = "end_game"
             \/ op' = "check_game_over" /\ TopRowOccupied
             \/ op' = "try_spawn_piece" /\ ret' = "False" ) =>
             /\ state' = "GAME_OVER"
             /\ score' = score
             /\ high_score' = Max(high_score, score)
      ]_vars

\* check_game_over() ended a running game whose score beat the high score of
\* an earlier game
C6_Witness ==
    /\ op = "check_game_over"
    /\ pstate = "PLAYING"
    /\ state = "GAME_OVER"
    /\ score > 0
    /\ high_score = score

\* C7: reset() from any state gives START, an empty board, score 0,
\* linesCleared 0 (level 1) and no pieces, and keeps highScore; a start()
\* right after it reaches PLAYING.
C7_Reset ==
    [][ /\ op' = "reset" =>
             /\ state' = "START"
             /\ \A r \in 1..board'.height : \A c \in 1..board'.width :
                    board'.grid[r][c] = "None"
             /\ board'.height = board.height /\ board'.width = board.width
             /\ Len(board'.grid) = board.height
             /\ score' = 0
             /\ lines_cleared' = 0
             /\ 1 + (lines_cleared' \div 10) = 1
             /\ current_piece' = NoPiece
             /\ next_piece' = NoPiece
             /\ high_score' = high_score
        /\ (op = "reset" /\ op' = "start") => state' = "PLAYING"
      ]_vars

\* reset() was called on a finished game with blocks, a score and a high score
C7_Witness ==
    /\ op = "reset"
    /\ pstate = "GAME_OVER"
    /\ state = "START"
    /\ high_score > 0
    /\ BoardEmpty

\* C8: for a list of k distinct rows of the board, clear_lines leaves a grid
\* whose first k rows are empty and whose other rows are the rows that were
\* not removed, in their order, each moved down by the number of removed rows
\* below it.
C8_ClearLines ==
    [][ (/\ op' = "clear_lines"
         /\ Len(board.grid) = board.height
         /\ IsDistinct(args'[1])
         /\ args'[1] # <<>>) =>
          /\ ret' = "None"
          /\ IsClearedGrid(board.grid, board'.grid, Range(args'[1]), board.width)
      ]_vars

\* two rows that are not neighbours were cleared and the row between them,
\* which has blocks, came down to the bottom
C8_Witness ==
    /\ op = "clear_lines"
    /\ ret = "None"
    /\ Len(args[1]) = 2
    /\ args[1][1] = board.height - 1
    /\ args[1][2] = board.height - 3
    /\ board.grid[board.height] # EmptyRow(board.width)

\* C9: clear_lines gives the same grid for every order of a list of distinct
\* rows of the board: [a, b] and [b, a] give the same grid, and every list
\* gives the grid its ascending order gives (so any two orders agree).
C9_OrderIndependent ==
    Len(board.grid) = board.height =>
        \A l1 \in RowLists :
            IsDistinct(l1) =>
                /\ clear_lines(board, l1) = clear_lines(board, SortedAsc(l1))
                /\ Len(l1) = 2 =>
                     clear_lines(board, l1) = clear_lines(board, <<l1[2], l1[1]>>)

\* two rows were cleared, given with the upper row first, and a row with
\* blocks is left
C9_Witness ==
    /\ op = "clear_lines"
    /\ ret = "None"
    /\ Len(args[1]) = 2
    /\ args[1][1] < args[1][2]
    /\ \E r \in 1..Len(board.grid) : board.grid[r] # EmptyRow(board.width)

\* C10: for a list of rows that repeats a row, clear_lines does not raise and
\* leaves the grid it leaves for the list without the repetitions.
C10_Duplicates ==
    [][ (/\ op' = "clear_lines"
         /\ Len(board.grid) = board.height
         /\ ~IsDistinct(args'[1])) =>
          /\ ret' = "None"
          /\ IsClearedGrid(board.grid, board'.grid, Range(args'[1]), board.width)
      ]_vars

\* C11, as claimed: after clear_lines(R), for any list R of distinct rows of the
\* board, get_complete_lines() holds no row of R.
C11_NoClearedRowComplete ==
    [][ (/\ op' = "clear_lines"
         /\ Len(board.grid) = board.height
         /\ IsDistinct(args'[1])) =>
          \A r \in Range(args'[1]) : r \notin Range(get_complete_lines(board'))
      ]_vars

\* C11, amended: after clear_lines(R), for any list R of distinct rows of the
\* board, get_complete_lines() holds exactly the places the complete rows
\* outside R have moved down to (a row of R is in it only when such a row
\* moved down to it); when R holds every complete row, it is empty.
C11_ClearedRows ==
    [][ (/\ op' = "clear_lines"
         /\ Len(board.grid) = board.height
         /\ IsDistinct(args'[1])) =>
          LET R == Range(args'[1])
              full == FullRows(board.grid)
          IN /\ ret' = "None"
             /\ Range(get_complete_lines(board')) =
                  {r + Cardinality({x \in R : x > r}) : r \in full \ R}
             /\ full \subseteq R => get_complete_lines(board') = <<>>
      ]_vars

\* rows were cleared and a complete row that was above them has come down to
\* one of their places
C11_Witness ==
    /\ op = "clear_lines"
    /\ ret = "None"
    /\ IsDistinct(args[1])
    /\ Len(board.grid) = board.height
    /\ \E r \in Range(args[1]) : r \in Range(get_complete_lines(board))

\* C12: after any sequence of set_cell and clear_cell with any coordinates,
\* clear_lines with distinct rows of the board and reset, the grid has height
\* rows of width cells each.
C12_GridShape ==
    /\ board.height = CHeight
    /\ board.width = CWidth
    /\ Len(board.grid) = board.height
    /\ \A r \in 1..Len(board.grid) : Len(board.grid[r]) = board.width

\* two rows were cleared in one call, after cells were set
C12_Witness ==
    /\ op = "clear_lines"
    /\ ret = "None"
    /\ Len(args[1]) = 2
    /\ Len(board.grid) = board.height

\* C13: with a row or column outside the board, negative ones included,
\* set_cell and clear_cell leave every cell as it is, get_cell returns empty,
\* and none of them raises.
C13_OutOfBounds ==
    [][ (/\ op' \in {"set_cell", "clear_cell", "get_cell"}
         /\ ~(/\ 0 <= args'[1] /\ args'[1] < board.height
              /\ 0 <= args'[2] /\ args'[2] < board.width)) =>
          /\ board' = board
          /\ ret' = "None"
      ]_vars

\* set_cell was called with row -1 on a board that has blocks
C13_Witness ==
    /\ op = "set_cell"
    /\ args[1] = 0 - 1
    /\ args[2] \in 0..(board.width - 1)
    /\ ret = "None"
    /\ ~BoardEmpty

\* C14: is_valid_position(row, col) is true iff the cell is on the board and
\* empty; outside the board it is false, although is_empty is true there.
C14_IsValidPosition ==
    [][ op' = "is_valid_position" =>
          LET row == args'[1]
              col == args'[2]
              inside == /\ 0 <= row /\ row < board.height
                        /\ 0 <= col /\ col < board.width
          IN /\ (ret' = "True") <=> (inside /\ board.grid[row + 1][col + 1] = "None")
             /\ ret' \in {"True", "False"}
             /\ ~inside => (ret' = "False" /\ is_empty(board, row, col))
             /\ board' = board
      ]_vars

\* is_valid_position was asked about the row past the last one and said no
C14_Witness ==
    /\ op = "is_valid_position"
    /\ args[1] = board.height
    /\ args[2] \in 0..(board.width - 1)
    /\ ret = "False"
    /\ ~BoardEmpty

\* C15: get_complete_lines() returns the rows with no empty cell, each once,
\* in strictly ascending order, and changes nothing; on a new board and right
\* after a reset it returns the empty list.
C15_GetCompleteLines ==
    [][ op' = "get_complete_lines" =>
          /\ \A i \in 1..(Len(ret') - 1) : ret'[i] < ret'[i + 1]
          /\ Range(ret') = FullRows(board.grid)
          /\ board' = board
          /\ op \in {"init", "board_reset"} => ret' = <<>>
      ]_vars

\* get_complete_lines() found two or more complete rows, the top row first
C15_Witness ==
    /\ op = "get_complete_lines"
    /\ Len(ret) >= 2
    /\ ret[1] = 0

\* C16: is_valid_move(piece, row, col) is true iff the 4 cells (row+dr, col+dc)
\* of the piece's rotation state are all on the board and empty, for every
\* type, rotation, anchor and board; it changes nothing.
C16_IsValidMove ==
    [][ op' = "is_valid_move" =>
          /\ (ret' = "True") <=>
                PieceFits(board, MovedTo(current_piece, args'[1], args'[2]))
          /\ ret' \in {"True", "False"}
          /\ UNCHANGED gameVars
      ]_vars

\* is_valid_move said no for an anchor other than the piece's own, where 3 of
\* the 4 cells are free and one is occupied
C16_Witness ==
    /\ op = "is_valid_move"
    /\ ret = "False"
    /\ args[1] # current_piece.row
    /\ Cardinality({i \in 1..4 :
          LET r == args[1] + current_piece.shape[i][1]
              c == args[2] + current_piece.shape[i][2]
          IN OnBoard(board, r, c) /\ board.grid[r + 1][c + 1] = "None"}) = 3
    /\ \E i \in 1..4 :
          LET r == args[1] + current_piece.shape[i][1]
              c == args[2] + current_piece.shape[i][2]
          IN OnBoard(board, r, c) /\ board.grid[r + 1][c + 1] # "None"

\* C17, as claimed: can_move_left/right/down are is_valid_move at the anchor
\* moved by (0,-1), (0,+1), (+1,0); should_lock is true iff can_move_down is
\* false, that is iff some cell one row below a cell of the piece is past the
\* floor or occupied.
C17_LockFloorOrBlock ==
    [][ /\ MovesAnswer
        /\ op' = "should_lock" =>
             (ret' = "True") <=>
                 \E i \in 1..4 :
                     LET r == BelowRow(current_piece, i)
                         c == BelowCol(current_piece, i)
                     IN \/ r >= board.height
                        \/ OnBoard(board, r, c) /\ board.grid[r + 1][c + 1] # "None"
      ]_vars

\* C17, amended: can_move_left/right/down are is_valid_move at the anchor
\* moved by (0,-1), (0,+1), (+1,0); should_lock is true iff can_move_down is
\* false, that is iff some cell one row below a cell of the piece is off the
\* board (past the floor, or outside a side wall) or occupied.
C17_MovesAndLock ==
    [][ /\ MovesAnswer
        /\ op' = "should_lock" =>
             (ret' = "True") <=>
                 \E i \in 1..4 :
                     LET r == BelowRow(current_piece, i)
                         c == BelowCol(current_piece, i)
                     IN \/ ~OnBoard(board, r, c)
                        \/ board.grid[r + 1][c + 1] # "None"
      ]_vars

\* should_lock said yes for a piece on the board, above the floor, that
\* rests on a block
C17_Witness ==
    /\ op = "should_lock"
    /\ ret = "True"
    /\ PieceFits(board, current_piece)
    /\ \A i \in 1..4 : BelowRow(current_piece, i) < board.height

\* C18: can_rotate(piece) is true iff every cell of the next clockwise
\* rotation state at the same anchor is on the board and empty, and the
\* rotation does not newly bring the piece to a wall: not (new leftmost
\* column = 0 and old leftmost column > 0) and not (new rightmost column =
\* width-1 and old rightmost column < width-1).
C18_CanRotate ==
    [][ op' = "can_rotate" =>
          LET old == ColsOf(current_piece)
              new == ColsOf(Turned(current_piece))
              newlyLeft == /\ 0 \in new
                           /\ \A x \in new : x >= 0
                           /\ \A x \in old : x > 0
              newlyRight == /\ (board.width - 1) \in new
                            /\ \A x \in new : x <= board.width - 1
                            /\ \A x \in old : x < board.width - 1
          IN /\ (ret' = "True") <=>
                   /\ PieceFits(board, Turned(current_piece))
                   /\ ~newlyLeft
                   /\ ~newlyRight
             /\ ret' \in {"True", "False"}
             /\ UNCHANGED gameVars
      ]_vars

\* can_rotate said no although every cell of the rotated piece is free: the
\* rotation would bring the piece to the right wall
C18_Witness ==
    /\ op = "can_rotate"
    /\ ret = "False"
    /\ PieceFits(board, Turned(current_piece))
    /\ (board.width - 1) \in ColsOf(Turned(current_piece))
    /\ 0 \notin ColsOf(Turned(current_piece))

\* C19: get_wall_kick_offset(piece) returns the first of (0,-1), (0,+1),
\* (0,-2), (0,+2), (-1,0) for which the 4 cells of the next clockwise rotation
\* state at anchor + offset are on the board and empty, and none iff no
\* offset of the list is such.
C19_WallKick ==
    [][ op' = "get_wall_kick_offset" =>
          LET K == << <<0, 0 - 1>>, <<0, 1>>, <<0, 0 - 2>>, <<0, 2>>, <<0 - 1, 0>> >>
              p == Turned(current_piece)
              ok(k) == PieceFits(board, MovedTo(p, p.row + K[k][1], p.col + K[k][2]))
          IN /\ IF \E k \in 1..5 : ok(k)
                THEN \E k \in 1..5 : /\ ok(k)
                                     /\ \A j \in 1..(k - 1) : ~ok(j)
                                     /\ ret' = K[k]
                ELSE ret' = <<>>
             /\ UNCHANGED gameVars
      ]_vars

\* only the last candidate, one row up, fits: it was returned
C19_Witness ==
    /\ op = "get_wall_kick_offset"
    /\ ret = <<0 - 1, 0>>
    /\ ~BoardEmpty

\* C20: add_line_clear_score(n) with n in 1..4 adds 100, 300, 500 or 800 times
\* the level in force before the call to the score and n to linesCleared;
\* with any other n (0, negative, 5 or more) score and linesCleared stay as
\* they are; it never raises.
C20_AddLineClearScore ==
    [][ op' = "add_line_clear_score" =>
          LET n == args'[1]
              level == 1 + (lines_cleared \div 10)
          IN /\ IF n \in 1..4
                THEN /\ score' = score + Table(n) * level
                     /\ lines_cleared' = lines_cleared + n
                ELSE /\ score' = score
                     /\ lines_cleared' = lines_cleared
             /\ ret' = "None"
             /\ UNCHANGED <<state, board, high_score, current_piece, next_piece>>
      ]_vars

\* add_line_clear_score(4) at level 4 gave score 3200
C20_Witness ==
    /\ op = "add_line_clear_score"
    /\ args[1] = 4
    /\ score = 3200
    /\ lines_cleared = 34

\* C21: under add_line_clear_score(n) and add_soft_drop_score(cells) with any
\* integer arguments the score stays non-negative and never decreases;
\* add_soft_drop_score(cells) adds exactly cells to the score, whatever the
\* level, and leaves linesCleared as it is.
C21_ScoreMonotonic ==
    [][ /\ op' \in {"add_line_clear_score", "add_soft_drop_score"} =>
             /\ score' >= score
             /\ score' >= 0
        /\ op' = "add_soft_drop_score" =>
             /\ score' = score + args'[1]
             /\ lines_cleared' = lines_cleared
      ]_vars

\* C22: get_level() is 1 + (linesCleared div 10): 1 for 0..9 lines, 2 for
\* 10..19, 10 for 99; add_line_clear_score never decreases linesCleared nor
\* the level.
C22_Level ==
    [][ /\ op' = "get_level" =>
             /\ ret' = 1 + (lines_cleared \div 10)
             /\ lines_cleared \in 0..9 => ret' = 1
             /\ lines_cleared \in 10..19 => ret' = 2
             /\ lines_cleared = 99 => ret' = 10
             /\ UNCHANGED gameVars
        /\ op' = "add_line_clear_score" =>
             /\ lines_cleared' >= lines_cleared
             /\ get_level(lines_cleared') >= get_level(lines_cleared)
      ]_vars

\* get_level() answered 10 at 99 lines
C22_Witness ==
    /\ op = "get_level"
    /\ lines_cleared = 99
    /\ ret = 10

\* C27: get_drop_speed() is max(50, 1000 - (level-1)*100) for every level >= 1:
\* 1000 at level 1, not larger at the next level, and 50 from level 11 on.
C27_DropSpeed ==
    [][ op' = "get_drop_speed" =>
          LET level == 1 + (lines_cleared \div 10)
          IN /\ level >= 1
             /\ ret' = Max(50, 1000 - (level - 1) * 100)
             /\ level = 1 => ret' = 1000
             /\ level >= 11 => ret' = 50
             /\ get_drop_speed(lines_cleared + 10) <= ret'
             /\ UNCHANGED gameVars
      ]_vars

\* get_drop_speed() answered 50 at level 12, where the line gives -100
C27_Witness ==
    /\ op = "get_drop_speed"
    /\ lines_cleared \div 10 = 11
    /\ ret = 50

\* C23: update_high_score() sets highScore to max(highScore, score) and
\* changes nothing else, so it never lowers highScore; reset() keeps
\* highScore; hence a lower score recorded after a reset leaves the high
\* score of the earlier game in place.
C23_UpdateHighScore ==
    [][ /\ op' = "update_high_score" =>
             /\ high_score' = Max(high_score, score)
             /\ high_score' >= high_score
             /\ UNCHANGED <<state, board, score, lines_cleared,
                            current_piece, next_piece, disk>>
        /\ op' = "score_reset" =>
             /\ high_score' = high_score
             /\ score' = 0
      ]_vars

\* with no save file ever written, a game of 100 points was recorded after
\* one of 200 points and a reset, and the high score is still 200
C23_Witness ==
    /\ op = "update_high_score"
    /\ disk = NoFile
    /\ score = 100
    /\ high_score = 200

\* C24: no Score Tracker operation (add_line_clear_score,
\* add_soft_drop_score, update_high_score, reset, save, load) ever makes
\* highScore smaller than it was before.
C24_HighScoreMonotonic == [][high_score' >= high_score]_vars

\* C25: load() never raises; it yields highScore 0 when the save file is
\* missing, unreadable, not JSON, JSON that is not an object, or an object
\* without a high_score field, and the stored value when the file holds a
\* valid record.
C25_Load ==
    [][ op' = "load" =>
          /\ ret' = "None"
          /\ disk.kind # "record" => high_score' = 0
          /\ disk.kind = "record" => high_score' = disk.high_score
      ]_vars

\* C26: a save() that fails at open or at write does not raise and leaves a
\* previously stored valid record intact: load() afterwards still gives the
\* value that was on disk before the save began.
C26_FailedSave ==
    [][ (op' = "save" /\ args'[1] # "ok") =>
          /\ ret' = "None"
          /\ disk.kind = "record" =>
               /\ disk' = disk
               /\ load(high_score', disk') =
                      [high_score |-> disk.high_score, exc |-> "None"]
      ]_vars

\* the offsets of the 2x2 square
Square == {<<0, 0>>, <<0, 1>>, <<1, 0>>, <<1, 1>>}

\* C28: for every piece type and starting rotation, four rotate_clockwise
\* calls restore the shape and the rotation index, rotate_clockwise followed
\* by rotate_counterclockwise is the identity, the rotation index stays in
\* 0..3, and after any rotations and moves the shape is the catalog entry
\* for (type, rotation index).
C28_Rotations ==
    [][ /\ op' = "rotate_clockwise" =>
             /\ rotate_clockwise(rotate_clockwise(rotate_clockwise(
                    current_piece'))) = current_piece
             /\ rotate_counterclockwise(current_piece') = current_piece
             /\ current_piece'.rotation_state =
                    IF current_piece.rotation_state = 3 THEN 0
                    ELSE current_piece.rotation_state + 1
        /\ op' = "rotate_counterclockwise" =>
             /\ rotate_clockwise(current_piece') = current_piece
             /\ current_piece'.rotation_state =
                    IF current_piece.rotation_state = 0 THEN 3
                    ELSE current_piece.rotation_state - 1
        /\ op' \in {"rotate_clockwise", "rotate_counterclockwise"} =>
             /\ current_piece'.row = current_piece.row
             /\ current_piece'.col = current_piece.col
             /\ current_piece'.type = current_piece.type
        /\ current_piece'.rotation_state \in 0..3
        /\ current_piece'.shape =
               PIECE_SHAPES[current_piece'.type][current_piece'.rotation_state + 1]
      ]_vars

\* an S piece moved down and to the left has been rotated clockwise from
\* rotation index 3 back to 0
C28_Witness ==
    /\ op = "rotate_clockwise"
    /\ current_piece.type = "S"
    /\ current_piece.rotation_state = 0
    /\ current_piece.row = 2
    /\ current_piece.col = 1

\* C29: every type of the catalog has exactly 4 rotation states, each of
\* exactly 4 pairwise distinct offsets; the four states of O are the same
\* 2x2 square, so rotating an O piece never changes its block positions;
\* the 7 types have 7 pairwise distinct colors.
C29_Catalog ==
    [][ LET p == current_piece'
        IN /\ Len(piece_types) = 7
           /\ DOMAIN PIECE_SHAPES = Range(piece_types)
           /\ Len(PIECE_SHAPES[p.type]) = 4
           /\ Len(p.shape) = 4
           /\ IsDistinct(p.shape)
           /\ Cardinality(Range(get_block_positions(p))) = 4
           /\ p.type = "O" => Range(p.shape) = Square
           /\ (p.type = "O" /\ op' \in {"rotate_clockwise",
                                        "rotate_counterclockwise"}) =>
                  get_block_positions(p) = get_block_positions(current_piece)
           /\ p.color = PIECE_COLORS[p.type]
           /\ \A t \in Range(piece_types) :
                  t # p.type => PIECE_COLORS[t] # p.color
      ]_vars

\* an O piece moved to the right has been rotated to rotation index 3
C29_Witness ==
    /\ op = "rotate_counterclockwise"
    /\ current_piece.type = "O"
    /\ current_piece.rotation_state = 3
    /\ current_piece.col = 4

\* C30: Tetromino(tag) with a tag other than I, O, T, S, Z, J, L raises an
\* error and makes no piece; with a valid tag the piece starts at row 0,
\* column 3, rotation index 0, with the color of its type.
C30_Construction ==
    [][ op' = "Tetromino" =>
          IF args'[1] \in {"I", "O", "T", "S", "Z", "J", "L"}
          THEN /\ ret' = "None"
               /\ current_piece'.type = args'[1]
               /\ current_piece'.row = 0
               /\ current_piece'.col = 3
               /\ current_piece'.rotation_state = 0
               /\ current_piece'.color = PIECE_COLORS[args'[1]]
               /\ current_piece'.id # current_piece.id
          ELSE /\ ret' = "ValueError"
               /\ current_piece' = current_piece
      ]_vars

\* Tetromino('i') has raised ValueError and the piece that was there, a
\* moved and rotated T, is still the current one
C30_Witness ==
    /\ op = "Tetromino"
    /\ args[1] = "i"
    /\ ret = "ValueError"
    /\ current_piece.type = "T"
    /\ current_piece.rotation_state = 2
    /\ current_piece.row = 1

\* C31: on every spawn with a next piece present, the piece that was the
\* next piece becomes the current piece (same instance and type) with its
\* anchor at row 0, column 3, and a newly created piece, different from the
\* previous next piece, becomes the next piece; current and next are never
\* the same instance.
C31_Spawn ==
    [][ /\ ( /\ next_piece # NoPiece
             /\ \/ op' = "spawn_next_piece"
                \/ op' = "try_spawn_piece" /\ current_piece = NoPiece ) =>
             /\ current_piece'.id = next_piece.id
             /\ current_piece'.type = next_piece.type
             /\ current_piece' = MovedTo(next_piece, 0, 3)
             /\ next_piece' # NoPiece
             /\ next_piece'.id # next_piece.id
             /\ next_piece'.id # current_piece.id
        /\ current_piece' # NoPiece => current_piece'.id # next_piece'.id
      ]_vars

\* after a lock left blocks on the board, spawn_next_piece() has made the
\* preview piece the current one
C31_Witness ==
    /\ op = "spawn_next_piece"
    /\ state = "PLAYING"
    /\ ~BoardEmpty
    /\ current_piece # NoPiece
    /\ next_piece # NoPiece

\* C33: once the state is GAME_OVER it stays GAME_OVER under start, pause,
\* resume, end_game, try_spawn_piece, lock_current_piece, spawn_next_piece
\* and check_game_over; only reset() leaves it, and it goes to START.
C33_GameOverAbsorbing ==
    [][ state = "GAME_OVER" =>
          IF op' = "reset" THEN state' = "START" ELSE state' = "GAME_OVER"
      ]_vars

\* start() was called in GAME_OVER with pieces present and the game is still
\* over
C33_Witness ==
    /\ op = "start"
    /\ pstate = "GAME_OVER"
    /\ state = "GAME_OVER"
    /\ current_piece # NoPiece
    /\ next_piece # NoPiece

\* C37: try_spawn_piece() returns success or failure without raising in
\* every reachable game state, including START before start() and after
\* reset(), where there is neither a current nor a next piece.
C37_TrySpawnNeverRaises ==
    [][ op' = "try_spawn_piece" => ret' \in {"True", "False"} ]_vars

\* C38: lock_current_piece() called in PAUSED or GAME_OVER leaves the board,
\* score and linesCleared unchanged; the three change only while the state
\* is PLAYING (or by reset), so in GAME_OVER the score stays the final score
\* and highScore >= score keeps holding.
C38_LockOnlyWhilePlaying ==
    [][ /\ (op' = "lock_current_piece" /\ state \in {"PAUSED", "GAME_OVER"}) =>
             UNCHANGED <<board, score, lines_cleared>>
        /\ (op' \in {"start", "pause", "resume", "end_game", "spawn_next_piece",
                     "try_spawn_piece", "lock_current_piece", "check_game_over"}
              /\ state # "PLAYING") =>
             UNCHANGED <<board, score, lines_cleared>>
      ]_vars

\* C39: clear_lines is all-or-nothing for any list of row indices,
\* duplicates included: it either completes with the grid still having
\* exactly height rows, or fails with the grid exactly as it was before the
\* call; it never leaves the grid with fewer than height rows.
C39_AllOrNothing ==
    [][ (op' = "clear_lines" /\ Len(board.grid) = board.height) =>
          /\ ret' = "None" => Len(board'.grid) = board.height
          /\ ret' # "None" => board' = board
          /\ Len(board'.grid) >= board.height
      ]_vars

\* C36: whenever get_wall_kick_offset(piece) returns an offset (dr, dc), for
\* a piece whose shape matches its rotation index, moving the anchor by
\* (dr, dc) and then applying rotate_clockwise gives a piece for which
\* is_valid_move at its own anchor is true: its 4 cells are on the board and
\* empty.
C36_KickSound ==
    [][ (op' = "get_wall_kick_offset" /\ ret' # <<>>) =>
          LET kicked == MovedTo(current_piece, current_piece.row + ret'[1],
                                current_piece.col + ret'[2])
              q == rotate_clockwise(kicked)
          IN /\ current_piece.shape =
                    PIECE_SHAPES[current_piece.type][current_piece.rotation_state + 1]
             /\ is_valid_move(board, q, q.row, q.col)
             /\ PieceFits(board, q)
      ]_vars

\* an I piece lying in the top row got the kick two columns to the left: one
\* column to the left a block is in the way, one to the right the wall
C36_Witness ==
    /\ op = "get_wall_kick_offset"
    /\ ret = <<0, 0 - 2>>
    /\ current_piece.type = "I"
    /\ current_piece.rotation_state = 0
    /\ ~BoardEmpty

\* C34: after every lock_current_piece() with a current piece present the
\* board contains no complete row, so when the board is changed by
\* lock_current_piece only, a board without a complete row never gets one.
C34_NoCompleteRow ==
    [][ /\ (op' = "lock_current_piece" /\ current_piece # NoPiece) =>
             /\ FullRows(board'.grid) = {}
             /\ get_complete_lines(board') = <<>>
        /\ FullRows(board.grid) = {} => FullRows(board'.grid) = {}
      ]_vars

\* a lock completed and removed rows and left blocks on the board, none of
\* them in a complete row
C34_Witness ==
    /\ op = "lock_current_piece"
    /\ num_lines >= 1
    /\ ~BoardEmpty
    /\ FullRows(board.grid) = {}

=============================================================================
